---- MODULE Spec2Model ----
(***************************************************************************)
(* Model of src/python/data_pipeline.py: the retail analytics pipeline     *)
(* (connect, extract, close, clean, export, summarise) and its three       *)
(* cleaning functions clean_sales_fact, clean_customer_clv and clean_rfm.  *)
(*                                                                         *)
(* Encoding of values.                                                     *)
(*   - A nullable cell is a sequence: <<>> is NULL / NaN / NaT, <<v>> is   *)
(*     the value v.                                                        *)
(*   - Text is a sequence of one-character strings.                        *)
(*   - A date is <<year, month, day>>.                                     *)
(*   - Money and percentages are integers in a fixed decimal unit, named   *)
(*     where they are used; arithmetic is exact decimal arithmetic.        *)
(*   - The pandas calls are modelled with the semantics of pandas 1.x/2.x  *)
(*     without copy-on-write, where `df[col].fillna(v, inplace=True)`      *)
(*     updates the frame.                                                  *)
(***************************************************************************)
EXTENDS Integers, Sequences, FiniteSets, TLC

VARIABLES
    pc,          \* position of the __main__ block (lines 309-333)
    conn,        \* the MySQL connection: "none", "open", "closed"
    source,      \* content of the source store, as the queries see it
    raw,         \* history: the tables as extract_data returned them
    dataframes,  \* the dict of tables returned by extract_data / clean_all
    files,       \* the CSV files written by export_to_csv, in writing order
    started,     \* history: the stages started so far, in order
    completed,   \* history: the stages completed so far, in order
    failed,      \* history: the call that raised, "none" while none has
    cleaned,     \* history: the tables a cleaner has returned
    queriesRun,  \* history: number of queries sent over the connection
    printed      \* whether print_summary started printing its block

vars == <<pc, conn, source, raw, dataframes, files, started, completed, failed,
          cleaned, queriesRun, printed>>

----------------------------------------------------------------------------
(* Nullable cells *)

Null == <<>>

Some(v) == <<v>>

IsNull(c) == c = <<>>

Val(c) == c[1]

----------------------------------------------------------------------------
(* Sequences and order statistics *)

Range(s) == {s[i] : i \in 1..Len(s)}

RECURSIVE SeqsUpTo(_, _)
SeqsUpTo(S, n) ==
    IF n = 0 THEN {<<>>}
    ELSE LET shorter == SeqsUpTo(S, n - 1)
         IN shorter \cup {Append(s, x) : s \in {t \in shorter : Len(t) = n - 1}, x \in S}

RECURSIVE Insert(_, _)
Insert(s, x) ==
    IF s = <<>> THEN <<x>>
    ELSE IF x <= Head(s) THEN <<x>> \o s
    ELSE <<Head(s)>> \o Insert(Tail(s), x)

RECURSIVE SortAsc(_)
SortAsc(s) == IF s = <<>> THEN <<>> ELSE Insert(SortAsc(Tail(s)), Head(s))

NonNull(cells) == SelectSeq(cells, LAMBDA c : ~IsNull(c))

Values(cells) == [i \in 1..Len(NonNull(cells)) |-> Val(NonNull(cells)[i])]

Column(df, col) == [i \in 1..Len(df) |-> df[i][col]]

\* Series.quantile(num/den) with linear interpolation over the sorted
\* non-null values v (Len(v) > 0), scaled by den: the result is den times
\* the quantile.
QuantileScaled(v, num, den) ==
    LET pos == num * (Len(v) - 1)
        lo  == (pos \div den) + 1
        fr  == pos % den
    IN IF fr = 0 THEN den * v[lo]
       ELSE den * v[lo] + fr * (v[lo + 1] - v[lo])

Min(a, b) == IF a <= b THEN a ELSE b

Abs(a) == IF a < 0 THEN -a ELSE a

\* Round x / unit to the nearest integer, halves away from zero (MySQL ROUND
\* on exact decimals).
RoundHalfAway(x, unit) ==
    IF x >= 0 THEN (2 * x + unit) \div (2 * unit)
    ELSE -((2 * (-x) + unit) \div (2 * unit))

\* Round x / unit to the nearest integer, halves to even (numpy round).
RoundHalfEven(x, unit) ==
    LET q == x \div unit
        r == x % unit
    IN IF 2 * r < unit THEN q
       ELSE IF 2 * r > unit THEN q + 1
       ELSE IF q % 2 = 0 THEN q ELSE q + 1

----------------------------------------------------------------------------
(* Text: str.strip() and str.title() *)

LowerLetters == <<"a","b","c","d","e","f","g","h","i","j","k","l","m",
                  "n","o","p","q","r","s","t","u","v","w","x","y","z">>

UpperLetters == <<"A","B","C","D","E","F","G","H","I","J","K","L","M",
                  "N","O","P","Q","R","S","T","U","V","W","X","Y","Z">>

IsLower(c) == c \in Range(LowerLetters)

IsUpper(c) == c \in Range(UpperLetters)

IsCased(c) == IsLower(c) \/ IsUpper(c)

IsSpace(c) == c \in {" ", "\t", "\n"}

ToUpper(c) ==
    IF IsLower(c)
    THEN UpperLetters[CHOOSE i \in 1..Len(LowerLetters) : LowerLetters[i] = c]
    ELSE c

ToLower(c) ==
    IF IsUpper(c)
    THEN LowerLetters[CHOOSE i \in 1..Len(UpperLetters) : UpperLetters[i] = c]
    ELSE c

RECURSIVE LStrip(_)
LStrip(s) == IF s # <<>> /\ IsSpace(Head(s)) THEN LStrip(Tail(s)) ELSE s

RECURSIVE RStrip(_)
RStrip(s) ==
    IF s # <<>> /\ IsSpace(s[Len(s)]) THEN RStrip(SubSeq(s, 1, Len(s) - 1)) ELSE s

Strip(s) == RStrip(LStrip(s))

\* str.title(): a cased character is upper-cased when it follows an uncased
\* one (or starts the string), lower-cased otherwise.
Title(s) ==
    [i \in 1..Len(s) |->
        IF i = 1 \/ ~IsCased(s[i - 1]) THEN ToUpper(s[i]) ELSE ToLower(s[i])]

\* Series.str.strip().str.title() on one cell; NaN stays NaN.
StripTitle(cell) == IF IsNull(cell) THEN Null ELSE Some(Title(Strip(Val(cell))))

----------------------------------------------------------------------------
(* Dates *)

DateLE(a, b) ==
    \/ a[1] < b[1]
    \/ a[1] = b[1] /\ a[2] < b[2]
    \/ a[1] = b[1] /\ a[2] = b[2] /\ a[3] <= b[3]

\* The range of a nanosecond Timestamp: pd.to_datetime raises
\* OutOfBoundsDatetime for a date outside it.
TimestampMin == <<1677, 9, 22>>

TimestampMax == <<2262, 4, 11>>

\* pd.to_datetime on one cell: NULL becomes NaT, a date in range is kept.
DateParses(cell) ==
    IsNull(cell) \/ (DateLE(TimestampMin, Val(cell)) /\ DateLE(Val(cell), TimestampMax))

IsLeap(y) == (y % 4 = 0 /\ y % 100 # 0) \/ y % 400 = 0

DaysBeforeMonth == <<0, 31, 59, 90, 120, 151, 181, 212, 243, 273, 304, 334>>

\* Day number of a date in the proleptic Gregorian calendar.
DayNumber(d) ==
    LET y == d[1] - 1
    IN 365 * y + (y \div 4) - (y \div 100) + (y \div 400)
       + DaysBeforeMonth[d[2]] + (IF d[2] > 2 /\ IsLeap(d[1]) THEN 1 ELSE 0) + d[3]

\* MySQL DATEDIFF(a, b): NULL when either date is NULL.
DateDiff(a, b) ==
    IF IsNull(a) \/ IsNull(b) THEN Null ELSE Some(DayNumber(Val(a)) - DayNumber(Val(b)))

----------------------------------------------------------------------------
(* clean_sales_fact, lines 150-192.                                        *)
(* Columns of a raw row: order_date, ship_date, shipping_days (days),      *)
(* category and order_status (text; category stands for the seven text     *)
(* columns of step 3.6 other than order_status), age, quantity, discount   *)
(* (fraction, unit 1e-4), revenue, total_cost, profit (cents),             *)
(* profit_margin_pct (unit 0.01 percent).                                  *)
(* The cleaned table keeps shipping_days in half days and                  *)
(* profit_margin_pct in units of 0.0001 percent, so that the median and    *)
(* the interpolated 99th percentile are integers; discount_pct is in       *)
(* units of 0.1 percent.                                                   *)

\* 3.1: pd.to_datetime on order_date and ship_date raises on a date it
\* cannot represent.
DatesParse(df) ==
    \A i \in 1..Len(df) : DateParses(df[i].order_date) /\ DateParses(df[i].ship_date)

\* 3.2: df.drop_duplicates(inplace=True): the first of equal rows is kept
\* (NaN cells compare equal).
DropDuplicates(df) ==
    LET keep == {i \in 1..Len(df) : \A j \in 1..(i - 1) : df[j] # df[i]}
        F[i \in 0..Len(df)] ==
            IF i = 0 THEN <<>>
            ELSE IF i \in keep THEN Append(F[i - 1], df[i]) ELSE F[i - 1]
    IN F[Len(df)]

\* 3.3: df[df['revenue'] >= 0] then df[df['quantity'] > 0]; a NaN cell
\* compares False.
RevenueOk(row) == ~IsNull(row.revenue) /\ Val(row.revenue) >= 0

QuantityOk(row) == ~IsNull(row.quantity) /\ Val(row.quantity) > 0

\* Mutation of FilterRows: the quantity test written as >= 0.
FilterRowsQuantityGE(df) ==
    SelectSeq(SelectSeq(df, RevenueOk),
              LAMBDA row : ~IsNull(row.quantity) /\ Val(row.quantity) >= 0)

FilterRows(df) == SelectSeq(SelectSeq(df, RevenueOk), QuantityOk)

\* 3.4: discount NaN -> 0; shipping_days NaN -> the median of the column
\* (twice the median, in half days); an all-NaN column stays NaN.
FillNulls(df) ==
    LET ship == SortAsc(Values(Column(df, "shipping_days")))
        med2 == IF ship = <<>> THEN Null ELSE Some(QuantileScaled(ship, 1, 2))
    IN [i \in 1..Len(df) |->
          [df[i] EXCEPT
             !.discount = IF IsNull(@) THEN Some(0) ELSE @,
             !.shipping_days = IF IsNull(@) THEN med2 ELSE Some(2 * Val(@))]]

\* 3.5: cap = quantile(0.99) of profit_margin_pct, times 100; NaN for an
\* empty or all-NaN column.
MarginCap(df) ==
    LET m == SortAsc(Values(Column(df, "profit_margin_pct")))
    IN IF m = <<>> THEN Null ELSE Some(QuantileScaled(m, 99, 100))

\* 3.5: clip(upper=cap); a NaN bound clips nothing, a NaN cell stays NaN.
ClipMargin(df) ==
    LET cap == MarginCap(df)
    IN [i \in 1..Len(df) |->
          [df[i] EXCEPT
             !.profit_margin_pct =
                 IF IsNull(@) THEN Null
                 ELSE IF IsNull(cap) THEN Some(100 * Val(@))
                 ELSE Some(Min(100 * Val(@), Val(cap)))]]

\* 3.6: strip and title-case the text columns.
StandardizeText(df) ==
    [i \in 1..Len(df) |->
        [df[i] EXCEPT !.category = StripTitle(@), !.order_status = StripTitle(@)]]

AgeBins == <<0, 25, 35, 45, 60, 100>>

AgeLabels == <<"18-25", "26-35", "36-45", "46-60", "60+">>

\* Mutation of AgeGroup: the bins closed on the left, as pd.cut(right=False).
AgeGroupLeftClosed(age) ==
    IF IsNull(age) THEN Null
    ELSE LET ids == Cardinality({k \in 1..Len(AgeBins) : AgeBins[k] <= Val(age)})
         IN IF ids = 0 \/ ids = Len(AgeBins) THEN Null ELSE Some(AgeLabels[ids])

\* 3.7: pd.cut(age, bins, labels) with the defaults right=True,
\* include_lowest=False: ids = bins.searchsorted(age, side='left'), and
\* ids = 0 or ids = len(bins) is NaN.
AgeGroup(age) ==
    IF IsNull(age) THEN Null
    ELSE LET ids == Cardinality({k \in 1..Len(AgeBins) : AgeBins[k] < Val(age)})
         IN IF ids = 0 \/ ids = Len(AgeBins) THEN Null ELSE Some(AgeLabels[ids])

Returned == <<"R", "e", "t", "u", "r", "n", "e", "d">>

Completed == <<"C", "o", "m", "p", "l", "e", "t", "e", "d">>

\* 3.7: the derived columns discount_pct, age_group, is_returned, month_year.
AddDerived(df) ==
    [i \in 1..Len(df) |->
        [order_date        |-> df[i].order_date,
         ship_date         |-> df[i].ship_date,
         shipping_days     |-> df[i].shipping_days,
         category          |-> df[i].category,
         order_status      |-> df[i].order_status,
         age               |-> df[i].age,
         quantity          |-> df[i].quantity,
         discount          |-> df[i].discount,
         revenue           |-> df[i].revenue,
         total_cost        |-> df[i].total_cost,
         profit            |-> df[i].profit,
         profit_margin_pct |-> df[i].profit_margin_pct,
         discount_pct      |-> IF IsNull(df[i].discount) THEN Null
                               ELSE Some(RoundHalfEven(Val(df[i].discount), 10)),
         age_group         |-> AgeGroup(df[i].age),
         is_returned       |-> IF df[i].order_status = Some(Returned) THEN 1 ELSE 0,
         month_year        |-> IF IsNull(df[i].order_date) THEN Null
                               ELSE Some(<<Val(df[i].order_date)[1], Val(df[i].order_date)[2]>>)]]

\* Steps 3.2 to 3.7 in the order of the code.
CleanSalesRows(df) ==
    AddDerived(StandardizeText(ClipMargin(FillNulls(FilterRows(DropDuplicates(df))))))

\* clean_sales_fact(df): the returned table, or the exception of step 3.1.
CleanSalesFact(df) ==
    IF DatesParse(df) THEN [ok |-> TRUE, rows |-> CleanSalesRows(df)]
    ELSE [ok |-> FALSE, rows |-> <<>>]

----------------------------------------------------------------------------
(* pd.qcut(x, q=4, labels=..., duplicates=...), as used on lines 206-211   *)
(* and 222-224.  Bin edges are kept times 4, so that the interpolated      *)
(* quartiles are integers.                                                 *)

\* The five edges x.quantile([0, .25, .5, .75, 1]) over the non-null values,
\* times 4; no edge is a number when there is no value.
QuartileEdges(cells) ==
    LET v == SortAsc(Values(cells))
    IN IF v = <<>> THEN <<>> ELSE [k \in 1..5 |-> QuantileScaled(v, k - 1, 4)]

\* algos.unique(bins) on non-decreasing edges.
UniqueEdges(edges) ==
    LET F[i \in 0..Len(edges)] ==
            IF i = 0 THEN <<>>
            ELSE IF i > 1 /\ edges[i] = edges[i - 1] THEN F[i - 1]
            ELSE Append(F[i - 1], edges[i])
    IN F[Len(edges)]

\* The quartile edges are not all distinct (the distribution is degenerate);
\* a column without values has five NaN edges.
Degenerate(cells) == Len(UniqueEdges(QuartileEdges(cells))) < 5

\* _bins_to_cuts with include_lowest=True and right=True.  Duplicate edges
\* raise unless duplicates='drop'; the labels must then still be one fewer
\* than the edges left, or "Bin labels must be one fewer than the number of
\* bin edges" is raised.  ids = bins.searchsorted(x, side='left'), the lowest
\* edge belongs to the first bin, and ids = 0 or len(bins) is NaN.
BinsToCuts(cells, edges, labels, drop) ==
    LET bins == UniqueEdges(edges)
        code(c) ==
            IF IsNull(c) THEN Null
            ELSE LET ids == IF 4 * Val(c) = bins[1] THEN 1
                            ELSE Cardinality({k \in 1..Len(bins) : bins[k] < 4 * Val(c)})
                 IN IF ids = 0 \/ ids = Len(bins) THEN Null ELSE Some(labels[ids])
    IN IF edges = <<>> \/ (Len(bins) < Len(edges) /\ ~drop)
            \/ Len(labels) # Len(bins) - 1
       THEN [ok |-> FALSE, codes |-> <<>>]
       ELSE [ok |-> TRUE, codes |-> [i \in 1..Len(cells) |-> code(cells[i])]]

QCut(cells, labels, drop) == BinsToCuts(cells, QuartileEdges(cells), labels, drop)

\* Categorical.astype(int): raises when a code is NaN.
AsTypeInt(cut) ==
    IF cut.ok /\ \A i \in 1..Len(cut.codes) : ~IsNull(cut.codes[i])
    THEN [ok |-> TRUE, codes |-> [i \in 1..Len(cut.codes) |-> Val(cut.codes[i])]]
    ELSE [ok |-> FALSE, codes |-> <<>>]

----------------------------------------------------------------------------
(* clean_customer_clv, lines 195-214.  Columns of a raw row:               *)
(* first_order_date, last_order_date, customer_lifespan_days,              *)
(* clv_estimate (cents).                                                   *)

\* Mutation of TierLabels: the labels in descending order.
TierLabelsDescending == <<"Platinum", "Gold", "Silver", "Bronze">>

TierLabels == <<"Bronze", "Silver", "Gold", "Platinum">>

\* Lines 202-203: fillna(0) on clv_estimate and customer_lifespan_days.
FillClv(df) ==
    [i \in 1..Len(df) |->
        [df[i] EXCEPT
           !.clv_estimate = IF IsNull(@) THEN Some(0) ELSE @,
           !.customer_lifespan_days = IF IsNull(@) THEN Some(0) ELSE @]]

\* clean_customer_clv(df): the returned table, or the exception raised by
\* pd.to_datetime or pd.qcut.
CleanCustomerClv(df) ==
    LET filled == FillClv(df)
        cut    == QCut(Column(filled, "clv_estimate"), TierLabels, TRUE)
        parses == \A i \in 1..Len(df) :
                      DateParses(df[i].first_order_date) /\ DateParses(df[i].last_order_date)
    IN IF parses /\ cut.ok
       THEN [ok |-> TRUE,
             rows |-> [i \in 1..Len(df) |->
                 [first_order_date       |-> filled[i].first_order_date,
                  last_order_date        |-> filled[i].last_order_date,
                  customer_lifespan_days |-> filled[i].customer_lifespan_days,
                  clv_estimate           |-> filled[i].clv_estimate,
                  clv_tier               |-> cut.codes[i]]]]
       ELSE [ok |-> FALSE, rows |-> <<>>]

----------------------------------------------------------------------------
(* clean_rfm, lines 217-237.  Columns of a raw row: recency_days,          *)
(* frequency, monetary (cents).                                            *)

\* Mutation of RecencyLabels: recency scored like the other two dimensions.
RecencyLabelsAscending == <<1, 2, 3, 4>>

RecencyLabels == <<4, 3, 2, 1>>

ScoreLabels == <<1, 2, 3, 4>>

\* Mutation of RankFirst: equal values ranked in reverse order of appearance.
RankLast(cells) ==
    [i \in 1..Len(cells) |->
        IF IsNull(cells[i]) THEN Null
        ELSE Some(1 + Cardinality({j \in 1..Len(cells) :
                 /\ ~IsNull(cells[j])
                 /\ \/ Val(cells[j]) < Val(cells[i])
                    \/ Val(cells[j]) = Val(cells[i]) /\ j > i}))]

\* Series.rank(method='first'): rank by value, equal values in order of
\* appearance; NaN has no rank.
RankFirst(cells) ==
    [i \in 1..Len(cells) |->
        IF IsNull(cells[i]) THEN Null
        ELSE Some(1 + Cardinality({j \in 1..Len(cells) :
                 /\ ~IsNull(cells[j])
                 /\ \/ Val(cells[j]) < Val(cells[i])
                    \/ Val(cells[j]) = Val(cells[i]) /\ j < i}))]

\* Mutation of RfmLabel: the first threshold written as > 10.
RfmLabelStrict(score) ==
    IF score > 10 THEN "Champions"
    ELSE IF score >= 8 THEN "Loyal Customers"
    ELSE IF score >= 6 THEN "Potential Loyalists"
    ELSE IF score >= 4 THEN "At Risk"
    ELSE "Lost Customers"

\* rfm_label, lines 228-233.
RfmLabel(score) ==
    IF score >= 10 THEN "Champions"
    ELSE IF score >= 8 THEN "Loyal Customers"
    ELSE IF score >= 6 THEN "Potential Loyalists"
    ELSE IF score >= 4 THEN "At Risk"
    ELSE "Lost Customers"

\* clean_rfm(df): the returned table, or the exception raised by pd.qcut or
\* astype(int).
CleanRfm(df) ==
    LET R == AsTypeInt(QCut(Column(df, "recency_days"), RecencyLabels, TRUE))
        F == AsTypeInt(QCut(RankFirst(Column(df, "frequency")), ScoreLabels, FALSE))
        M == AsTypeInt(QCut(Column(df, "monetary"), ScoreLabels, TRUE))
    IN IF R.ok /\ F.ok /\ M.ok
       THEN [ok |-> TRUE,
             rows |-> [i \in 1..Len(df) |->
                 [recency_days |-> df[i].recency_days,
                  frequency    |-> df[i].frequency,
                  monetary     |-> df[i].monetary,
                  R_score      |-> R.codes[i],
                  F_score      |-> F.codes[i],
                  M_score      |-> M.codes[i],
                  RFM_score    |-> R.codes[i] + F.codes[i] + M.codes[i],
                  rfm_segment  |-> RfmLabel(R.codes[i] + F.codes[i] + M.codes[i])]]]
       ELSE [ok |-> FALSE, rows |-> <<>>]

----------------------------------------------------------------------------
(* extract_data, lines 35-143.  The store holds the joined order lines the *)
(* sales_fact query selects from, in the order of its ORDER BY, and the    *)
(* result sets of the three aggregate queries.  Columns of an order line:  *)
(* order_date, ship_date, category, age, returned (a returns row joins),   *)
(* quantity, unit_price (cents), discount (unit 1e-4, nullable),           *)
(* cost_price (unit 0.0001 of the currency).  Amounts are computed in      *)
(* units of 1e-6 of the currency and rounded to cents.                     *)

\* quantity * unit_price * (1 - discount), in units of 1e-6.
LineRevenue(l) == l.quantity * l.unit_price * (10000 - Val(l.discount))

\* quantity * cost_price, in units of 1e-6.
LineCost(l) == l.quantity * l.cost_price * 100

\* Mutation of ProfitExpr: the profit rounded to one decimal.
ProfitExprOneDecimal(l) ==
    IF IsNull(l.discount) THEN Null
    ELSE Some(10 * RoundHalfAway(LineRevenue(l) - LineCost(l), 100000))

\* Lines 62-65: ROUND(revenue expression - cost expression, 2), in cents.
ProfitExpr(l) ==
    IF IsNull(l.discount) THEN Null
    ELSE Some(RoundHalfAway(LineRevenue(l) - LineCost(l), 10000))

\* Lines 66-69: ROUND((net price - cost_price) / cost_price * 100, 2), in
\* units of 0.01 percent; a division by zero is NULL.
MarginExpr(l) ==
    IF IsNull(l.discount) \/ l.cost_price = 0 THEN Null
    ELSE Some(RoundHalfAway(
             (l.unit_price * (10000 - Val(l.discount)) - 100 * l.cost_price) * 100,
             l.cost_price))

\* The select list of the sales_fact query, lines 44-71, on one order line.
SalesFactRow(l) ==
    [order_date        |-> l.order_date,
     ship_date         |-> l.ship_date,
     shipping_days     |-> DateDiff(l.ship_date, l.order_date),
     category          |-> l.category,
     order_status      |-> IF l.returned THEN Some(Returned) ELSE Some(Completed),
     age               |-> l.age,
     quantity          |-> Some(l.quantity),
     discount          |-> l.discount,
     revenue           |-> IF IsNull(l.discount) THEN Null
                           ELSE Some(RoundHalfAway(LineRevenue(l), 10000)),
     total_cost        |-> Some(RoundHalfAway(LineCost(l), 10000)),
     profit            |-> ProfitExpr(l),
     profit_margin_pct |-> MarginExpr(l)]

QueryNames == <<"sales_fact", "customer_clv", "rfm_segmentation", "product_performance">>

\* pd.read_sql(query, conn) for each of the four queries, lines 137-143.
QueryResults(store) ==
    [sales_fact          |-> [i \in 1..Len(store.order_lines) |->
                                  SalesFactRow(store.order_lines[i])],
     customer_clv        |-> store.customer_clv,
     rfm_segmentation    |-> store.rfm_segmentation,
     product_performance |-> store.product_performance]

NoTables ==
    [sales_fact |-> <<>>, customer_clv |-> <<>>, rfm_segmentation |-> <<>>,
     product_performance |-> <<>>]

NoStore ==
    [order_lines |-> <<>>, customer_clv |-> <<>>, rfm_segmentation |-> <<>>,
     product_performance |-> <<>>]

----------------------------------------------------------------------------
(* The __main__ block, lines 309-333: one action per call.                 *)

StageOrder == <<"connect", "extract", "close", "clean", "export", "summary">>

\* get_connection(), line 317: mysql.connector.connect returns a connection
\* or raises.
Connect ==
    /\ pc = "connect"
    /\ started' = Append(started, "connect")
    /\ \/ /\ conn' = "open"
          /\ completed' = Append(completed, "connect")
          /\ pc' = "extract"
          /\ failed' = failed
       \/ /\ conn' = conn
          /\ completed' = completed
          /\ pc' = "aborted"
          /\ failed' = "connect"
    /\ UNCHANGED <<source, raw, dataframes, files, cleaned, queriesRun, printed>>

\* extract_data(conn), line 321: the four queries run in order over the open
\* connection; n of them succeed, and the dict is returned when all do.
Extract ==
    /\ pc = "extract"
    /\ conn = "open"
    /\ started' = Append(started, "extract")
    /\ \E n \in 0..Len(QueryNames) :
          /\ queriesRun' = queriesRun + Min(n + 1, Len(QueryNames))
          /\ IF n = Len(QueryNames)
             THEN /\ dataframes' = QueryResults(source)
                  /\ raw' = QueryResults(source)
                  /\ completed' = Append(completed, "extract")
                  /\ pc' = "close"
                  /\ failed' = failed
             ELSE /\ UNCHANGED <<dataframes, raw, completed>>
                  /\ pc' = "aborted"
                  /\ failed' = "extract"
    /\ UNCHANGED <<conn, source, files, cleaned, printed>>

\* Mutation of Close: the connection is left open.
CloseSkipped ==
    /\ pc = "close"
    /\ started' = Append(started, "close")
    /\ completed' = Append(completed, "close")
    /\ pc' = "clean_sales_fact"
    /\ UNCHANGED <<conn, source, raw, dataframes, files, failed, cleaned, queriesRun,
                   printed>>

\* conn.close(), line 322.
Close ==
    /\ pc = "close"
    /\ started' = Append(started, "close")
    /\ conn' = "closed"
    /\ completed' = Append(completed, "close")
    /\ pc' = "clean_sales_fact"
    /\ UNCHANGED <<source, raw, dataframes, files, failed, cleaned, queriesRun, printed>>

\* clean_all, line 245: dataframes['sales_fact'] = clean_sales_fact(...).
CleanSalesFactStep ==
    /\ pc = "clean_sales_fact"
    /\ started' = Append(started, "clean")
    /\ LET res == CleanSalesFact(dataframes.sales_fact)
       IN IF res.ok
          THEN /\ dataframes' = [dataframes EXCEPT !.sales_fact = res.rows]
               /\ cleaned' = cleaned \cup {"sales_fact"}
               /\ pc' = "clean_customer_clv"
               /\ failed' = failed
          ELSE /\ UNCHANGED <<dataframes, cleaned>>
               /\ pc' = "aborted"
               /\ failed' = "clean_sales_fact"
    /\ UNCHANGED <<conn, source, raw, files, completed, queriesRun, printed>>

\* clean_all, line 246: dataframes['customer_clv'] = clean_customer_clv(...).
CleanCustomerClvStep ==
    /\ pc = "clean_customer_clv"
    /\ LET res == CleanCustomerClv(dataframes.customer_clv)
       IN IF res.ok
          THEN /\ dataframes' = [dataframes EXCEPT !.customer_clv = res.rows]
               /\ cleaned' = cleaned \cup {"customer_clv"}
               /\ pc' = "clean_rfm"
               /\ failed' = failed
          ELSE /\ UNCHANGED <<dataframes, cleaned>>
               /\ pc' = "aborted"
               /\ failed' = "clean_customer_clv"
    /\ UNCHANGED <<conn, source, raw, files, started, completed, queriesRun, printed>>

\* clean_all, lines 247-249: dataframes['rfm_segmentation'] = clean_rfm(...),
\* then clean_all returns.
CleanRfmStep ==
    /\ pc = "clean_rfm"
    /\ LET res == CleanRfm(dataframes.rfm_segmentation)
       IN IF res.ok
          THEN /\ dataframes' = [dataframes EXCEPT !.rfm_segmentation = res.rows]
               /\ cleaned' = cleaned \cup {"rfm_segmentation"}
               /\ completed' = Append(completed, "clean")
               /\ pc' = "export"
               /\ failed' = failed
          ELSE /\ UNCHANGED <<dataframes, cleaned, completed>>
               /\ pc' = "aborted"
               /\ failed' = "clean_rfm"
    /\ UNCHANGED <<conn, source, raw, files, started, queriesRun, printed>>

\* export_to_csv(dataframes), line 328: the four files are written in the
\* order of file_map; n of them are written before os.makedirs or to_csv
\* raises, all four when none does.
Export ==
    /\ pc = "export"
    /\ started' = Append(started, "export")
    /\ \E n \in 0..Len(QueryNames) :
          /\ files' = SubSeq(QueryNames, 1, n)
          /\ IF n = Len(QueryNames)
             THEN /\ completed' = Append(completed, "export")
                  /\ pc' = "summary"
                  /\ failed' = failed
             ELSE /\ completed' = completed
                  /\ pc' = "aborted"
                  /\ failed' = "export"
    /\ UNCHANGED <<conn, source, raw, dataframes, cleaned, queriesRun, printed>>

\* print_summary(dataframes), line 331, and the last print, line 333.
\* ', '.join(sf['category'].unique()), line 301, raises on a NaN category.
Summary ==
    /\ pc = "summary"
    /\ started' = Append(started, "summary")
    /\ printed' = TRUE
    /\ IF \A i \in 1..Len(dataframes.sales_fact) : ~IsNull(dataframes.sales_fact[i].category)
       THEN /\ completed' = Append(completed, "summary")
            /\ pc' = "done"
            /\ failed' = failed
       ELSE /\ completed' = completed
            /\ pc' = "aborted"
            /\ failed' = "summary"
    /\ UNCHANGED <<conn, source, raw, dataframes, files, cleaned, queriesRun>>

----------------------------------------------------------------------------
(* Inputs *)

MaxSalesRows == 2

MaxClvRows == 4

MaxRfmRows == 3

MaxOrderLines == 1

MaxPipeRows == 2

Toys == <<"T", "o", "y", "s">>

JanuaryDate == <<2024, 1, 31>>

FebruaryDate == <<2024, 2, 2>>

\* A date pd.to_datetime cannot represent.
FarDate == <<9999, 12, 31>>

BaseSalesRow ==
    [order_date        |-> Some(JanuaryDate),
     ship_date         |-> Some(FebruaryDate),
     shipping_days     |-> Some(2),
     category          |-> Some(Toys),
     order_status      |-> Some(Completed),
     age               |-> Some(30),
     quantity          |-> Some(2),
     discount          |-> Some(0),
     revenue           |-> Some(500),
     total_cost        |-> Some(300),
     profit            |-> Some(200),
     profit_margin_pct |-> Some(6667)]

AgeVals ==
    {Null, Some(-1), Some(0), Some(1), Some(25), Some(26), Some(35), Some(36),
     Some(45), Some(46), Some(60), Some(61), Some(100), Some(101)}

\* The raw sales-fact rows the tables are built from: a base row and its
\* variations in one column.
RawSalesRows ==
    {BaseSalesRow}
    \cup {[BaseSalesRow EXCEPT !.age = a] : a \in AgeVals}
    \cup {[BaseSalesRow EXCEPT !.revenue = r] : r \in {Null, Some(-1), Some(0)}}
    \cup {[BaseSalesRow EXCEPT !.quantity = q] : q \in {Null, Some(-1), Some(0)}}
    \cup {[BaseSalesRow EXCEPT !.discount = d] : d \in {Null, Some(1250), Some(1234)}}
    \cup {[BaseSalesRow EXCEPT !.shipping_days = d] : d \in {Null, Some(5)}}
    \cup {[BaseSalesRow EXCEPT !.profit_margin_pct = m] : m \in {Null, Some(90000)}}
    \cup {[BaseSalesRow EXCEPT !.category = c] :
             c \in {Null, Some(<<" ", "t", "o", "y", "s">>), Some(<<"T", "O", "Y", "S", " ">>)}}
    \cup {[BaseSalesRow EXCEPT !.order_status = c] :
             c \in {Some(<<"r", "e", "t", "u", "r", "n", "e", "d", " ">>)}}
    \cup {[BaseSalesRow EXCEPT !.order_date = d] : d \in {Null, Some(FebruaryDate), Some(FarDate)}}

ClvVals == {Null, Some(0), Some(100), Some(200), Some(300)}

RawClvRows ==
    {[first_order_date       |-> Some(JanuaryDate),
      last_order_date        |-> Some(FebruaryDate),
      customer_lifespan_days |-> Some(2),
      clv_estimate           |-> c] : c \in ClvVals}
    \cup {[first_order_date       |-> Some(JanuaryDate),
           last_order_date        |-> Some(JanuaryDate),
           customer_lifespan_days |-> Null,
           clv_estimate           |-> Some(100)],
          [first_order_date       |-> Some(JanuaryDate),
           last_order_date        |-> Some(FarDate),
           customer_lifespan_days |-> Some(2),
           clv_estimate           |-> Some(200)]}

RawRfmRows ==
    [recency_days : {Some(1), Some(2), Some(5)},
     frequency    : {Some(1), Some(2)},
     monetary     : {Some(100), Some(200), Some(400)}]
    \cup {[recency_days |-> Null, frequency |-> Some(1), monetary |-> Some(100)]}

\* Order lines with the amounts that make the three ROUNDs of the query
\* differ: half cents, fractions of a cent, a discount above 1, a returned
\* quantity.
OrderLines ==
    [order_date : {Some(JanuaryDate)},
     ship_date  : {Some(FebruaryDate)},
     category   : {Some(Toys)},
     age        : {Some(30)},
     returned   : {FALSE},
     quantity   : {-1, 1, 3},
     unit_price : {5, 199, 333},
     discount   : {Null, Some(0), Some(1000), Some(3333), Some(12000)},
     cost_price : {0, 49, 149, 450, 15000}]

\* ORDER BY o.order_date: ascending, NULL first.
SortedByOrderDate(lines) ==
    \A i \in 1..(Len(lines) - 1) :
        \/ IsNull(lines[i].order_date)
        \/ ~IsNull(lines[i + 1].order_date)
           /\ DateLE(Val(lines[i].order_date), Val(lines[i + 1].order_date))

\* ORDER BY col DESC: descending, NULL last.
SortedDesc(rows, col) ==
    \A i \in 1..(Len(rows) - 1) :
        \/ IsNull(rows[i + 1][col])
        \/ ~IsNull(rows[i][col]) /\ Val(rows[i][col]) >= Val(rows[i + 1][col])

PipeLine ==
    [order_date |-> Some(JanuaryDate),
     ship_date  |-> Some(FebruaryDate),
     category   |-> Some(Toys),
     age        |-> Some(30),
     returned   |-> FALSE,
     quantity   |-> 2,
     unit_price |-> 250,
     discount   |-> Some(0),
     cost_price |-> 15000]

\* The order lines of the whole-pipeline specification: a line that goes
\* through, a returned one, one whose category is NULL (print_summary
\* raises) and one whose date pd.to_datetime rejects (clean_sales_fact
\* raises).
PipeOrderLines ==
    {PipeLine,
     [PipeLine EXCEPT !.returned = TRUE],
     [PipeLine EXCEPT !.category = Null],
     [PipeLine EXCEPT !.order_date = Some(FarDate)]}

PipeClvRows ==
    {[first_order_date       |-> Some(JanuaryDate),
      last_order_date        |-> Some(FebruaryDate),
      customer_lifespan_days |-> Some(2),
      clv_estimate           |-> c] : c \in {Some(100), Some(200)}}

PipeRfmRows ==
    [recency_days : {Some(1), Some(2)},
     frequency    : {Some(1)},
     monetary     : {Some(100), Some(200)}]

PipeProductRows == {[total_units_sold |-> 2]}

\* The stores of the whole-pipeline specification: result sets in the order
\* of their ORDER BY, one CLV row and one RFM row per customer.
PipeStores ==
    {st \in [order_lines         : SeqsUpTo(PipeOrderLines, MaxPipeRows),
             customer_clv        : SeqsUpTo(PipeClvRows, MaxPipeRows),
             rfm_segmentation    : SeqsUpTo(PipeRfmRows, MaxPipeRows),
             product_performance : SeqsUpTo(PipeProductRows, 1)] :
        /\ SortedByOrderDate(st.order_lines)
        /\ SortedDesc(st.customer_clv, "clv_estimate")
        /\ SortedDesc(st.rfm_segmentation, "monetary")
        /\ Len(st.customer_clv) = Len(st.rfm_segmentation)}

----------------------------------------------------------------------------
(* Specifications *)

\* The whole run of the __main__ block.
Init ==
    /\ pc = "connect"
    /\ conn = "none"
    /\ source \in PipeStores
    /\ raw = NoTables
    /\ dataframes = NoTables
    /\ files = <<>>
    /\ started = <<>>
    /\ completed = <<>>
    /\ failed = "none"
    /\ cleaned = {}
    /\ queriesRun = 0
    /\ printed = FALSE

Next ==
    \/ Connect
    \/ Extract
    \/ Close
    \/ CleanSalesFactStep
    \/ CleanCustomerClvStep
    \/ CleanRfmStep
    \/ Export
    \/ Summary

Spec == Init /\ [][Next]_vars

\* The state in which clean_all is entered with the given tables.
AtCleanAll(tables, at) ==
    /\ pc = at
    /\ conn = "closed"
    /\ source = NoStore
    /\ raw = tables
    /\ dataframes = tables
    /\ files = <<>>
    /\ started = IF at = "clean_sales_fact" THEN SubSeq(StageOrder, 1, 3)
                 ELSE SubSeq(StageOrder, 1, 4)
    /\ completed = SubSeq(StageOrder, 1, 3)
    /\ failed = "none"
    /\ cleaned = {}
    /\ queriesRun = Len(QueryNames)
    /\ printed = FALSE

\* clean_sales_fact on every raw table of at most MaxSalesRows rows.
InitSales ==
    \E t \in SeqsUpTo(RawSalesRows, MaxSalesRows) :
        AtCleanAll([NoTables EXCEPT !.sales_fact = t], "clean_sales_fact")

NextSales == CleanSalesFactStep

SpecSales == InitSales /\ [][NextSales]_vars

\* clean_customer_clv and clean_rfm, each on every raw table of at most
\* MaxClvRows, MaxRfmRows rows.
InitQuartile ==
    \/ \E t \in SeqsUpTo(RawClvRows, MaxClvRows) :
          AtCleanAll([NoTables EXCEPT !.customer_clv = t], "clean_customer_clv")
    \/ \E t \in SeqsUpTo(RawRfmRows, MaxRfmRows) :
          AtCleanAll([NoTables EXCEPT !.rfm_segmentation = t], "clean_rfm")

NextQuartile == CleanCustomerClvStep \/ CleanRfmStep

SpecQuartile == InitQuartile /\ [][NextQuartile]_vars

\* The sales_fact query followed by clean_sales_fact, on every store of at
\* most MaxOrderLines order lines.
InitExtract ==
    /\ pc = "extract"
    /\ conn = "open"
    /\ \E t \in SeqsUpTo(OrderLines, MaxOrderLines) :
          /\ SortedByOrderDate(t)
          /\ source = [NoStore EXCEPT !.order_lines = t]
    /\ raw = NoTables
    /\ dataframes = NoTables
    /\ files = <<>>
    /\ started = SubSeq(StageOrder, 1, 1)
    /\ completed = SubSeq(StageOrder, 1, 1)
    /\ failed = "none"
    /\ cleaned = {}
    /\ queriesRun = 0
    /\ printed = FALSE

NextExtract == Extract \/ Close \/ CleanSalesFactStep

SpecExtract == InitExtract /\ [][NextExtract]_vars

----------------------------------------------------------------------------
(* Claims *)

SalesCleaned == "sales_fact" \in cleaned

ClvCleaned == "customer_clv" \in cleaned

RfmCleaned == "rfm_segmentation" \in cleaned

\* The cleaner was called and has returned or raised.
ClvAttempted == ClvCleaned \/ failed = "clean_customer_clv"

RfmAttempted == RfmCleaned \/ failed = "clean_rfm"

\* C1: every row returned by clean_sales_fact has revenue >= 0 and
\* quantity > 0, and its revenue and quantity are those of a raw input row
\* (offending rows are dropped, not corrected).
C1_RevenueQuantityFiltered ==
    SalesCleaned =>
        \A i \in 1..Len(dataframes.sales_fact) :
            LET row == dataframes.sales_fact[i]
            IN /\ ~IsNull(row.revenue) /\ Val(row.revenue) >= 0
               /\ ~IsNull(row.quantity) /\ Val(row.quantity) > 0
               /\ \E j \in 1..Len(raw.sales_fact) :
                     /\ raw.sales_fact[j].revenue = row.revenue
                     /\ raw.sales_fact[j].quantity = row.quantity

\* C1 witness: a table of two rows, one with a negative revenue, was cleaned
\* and only the other row was returned.
C1_Witness ==
    /\ SalesCleaned
    /\ \E j \in 1..Len(raw.sales_fact) : raw.sales_fact[j].revenue = Some(-1)
    /\ Len(dataframes.sales_fact) = 1
    /\ Len(raw.sales_fact) = 2

\* C2: the table returned by clean_sales_fact holds no two rows equal in
\* every column, also when the rows became equal through the fill,
\* normalisation and clipping steps.
C2_NoDuplicateRows ==
    SalesCleaned =>
        \A i, j \in 1..Len(dataframes.sales_fact) :
            i # j => dataframes.sales_fact[i] # dataframes.sales_fact[j]

\* The CLV column qcut sees, after fillna(0).
FilledClv == Column(FillClv(raw.customer_clv), "clv_estimate")

ClvDatesParse ==
    \A i \in 1..Len(raw.customer_clv) :
        /\ DateParses(raw.customer_clv[i].first_order_date)
        /\ DateParses(raw.customer_clv[i].last_order_date)

NoNullCells(cells) == \A i \in 1..Len(cells) : ~IsNull(cells[i])

\* C3: when the quartile edges of clv_estimate (clean_customer_clv) or of
\* recency_days or monetary (clean_rfm) are not all distinct, the cleaner
\* does not fail: it returns, with labels from fewer than 4 bins.  (The
\* other causes of a failure, a date that does not parse, a NULL cell, a
\* single customer, are excluded.)
C3_DegenerateDegradesGracefully ==
    /\ (/\ ClvAttempted
        /\ ClvDatesParse
        /\ Degenerate(FilledClv))
       => /\ ClvCleaned
          /\ Cardinality(Range(Column(dataframes.customer_clv, "clv_tier"))) < 4
    /\ (/\ RfmAttempted
        /\ Len(raw.rfm_segmentation) >= 2
        /\ NoNullCells(Column(raw.rfm_segmentation, "recency_days"))
        /\ NoNullCells(Column(raw.rfm_segmentation, "frequency"))
        /\ NoNullCells(Column(raw.rfm_segmentation, "monetary"))
        /\ \/ Degenerate(Column(raw.rfm_segmentation, "recency_days"))
           \/ Degenerate(Column(raw.rfm_segmentation, "monetary")))
       => RfmCleaned

\* C4: in every row returned by clean_rfm the three scores are in 1..4,
\* RFM_score is their sum and lies in 3..12, and rfm_segment is the label of
\* the threshold table for that score.
C4_RfmScoreAndSegment ==
    RfmCleaned =>
        \A i \in 1..Len(dataframes.rfm_segmentation) :
            LET row == dataframes.rfm_segmentation[i]
            IN /\ row.R_score \in 1..4
               /\ row.F_score \in 1..4
               /\ row.M_score \in 1..4
               /\ row.RFM_score = row.R_score + row.F_score + row.M_score
               /\ row.RFM_score \in 3..12
               /\ row.RFM_score \in 10..12 => row.rfm_segment = "Champions"
               /\ row.RFM_score \in 8..9 => row.rfm_segment = "Loyal Customers"
               /\ row.RFM_score \in 6..7 => row.rfm_segment = "Potential Loyalists"
               /\ row.RFM_score \in 4..5 => row.rfm_segment = "At Risk"
               /\ row.RFM_score = 3 => row.rfm_segment = "Lost Customers"

\* C4 witness: a returned table with a customer at the boundary score 10
\* (Champions) and one below 8.
C4_Witness ==
    /\ RfmCleaned
    /\ \E i, j \in 1..Len(dataframes.rfm_segmentation) :
          /\ dataframes.rfm_segmentation[i].RFM_score = 10
          /\ dataframes.rfm_segmentation[i].rfm_segment = "Champions"
          /\ dataframes.rfm_segmentation[j].RFM_score < 8

TierRank(tier) ==
    CASE tier = Some("Bronze") -> 1
      [] tier = Some("Silver") -> 2
      [] tier = Some("Gold") -> 3
      [] tier = Some("Platinum") -> 4
      [] OTHER -> 0

ClvOrZero(cell) == IF IsNull(cell) THEN 0 ELSE Val(cell)

\* C5: in a table returned by clean_customer_clv, a customer with a greater
\* clv_estimate (NULL counted as 0) has a tier rank, in the order Bronze <
\* Silver < Gold < Platinum, at least that of the other.
C5_ClvTierMonotonic ==
    ClvCleaned =>
        \A a, b \in 1..Len(dataframes.customer_clv) :
            /\ TierRank(dataframes.customer_clv[a].clv_tier) \in 1..4
            /\ ClvOrZero(raw.customer_clv[a].clv_estimate)
                   > ClvOrZero(raw.customer_clv[b].clv_estimate)
               => TierRank(dataframes.customer_clv[a].clv_tier)
                      >= TierRank(dataframes.customer_clv[b].clv_tier)

\* C5 witness: a returned table in which a NULL estimate was replaced and a
\* customer with a greater estimate has a strictly higher tier.
C5_Witness ==
    /\ ClvCleaned
    /\ \E a, b \in 1..Len(dataframes.customer_clv) :
          /\ IsNull(raw.customer_clv[b].clv_estimate)
          /\ ClvOrZero(raw.customer_clv[a].clv_estimate) > 0
          /\ TierRank(dataframes.customer_clv[a].clv_tier)
                 > TierRank(dataframes.customer_clv[b].clv_tier)

\* C6 as stated: age_group follows the bins [0,25], (25,35], (35,45],
\* (45,60], (60,100] with both end points 0 and 100 included, and no group
\* outside [0,100].
C6_ClosedAtZero ==
    SalesCleaned =>
        \A i \in 1..Len(dataframes.sales_fact) :
            LET row == dataframes.sales_fact[i]
                age == Val(row.age)
            IN ~IsNull(row.age) =>
                  /\ (0 <= age /\ age <= 25) => row.age_group = Some("18-25")
                  /\ (25 < age /\ age <= 35) => row.age_group = Some("26-35")
                  /\ (35 < age /\ age <= 45) => row.age_group = Some("36-45")
                  /\ (45 < age /\ age <= 60) => row.age_group = Some("46-60")
                  /\ (60 < age /\ age <= 100) => row.age_group = Some("60+")
                  /\ (age < 0 \/ age > 100) => IsNull(row.age_group)

\* C6 amended: age_group follows the bins (0,25], (25,35], (35,45], (45,60],
\* (60,100]: 100 is included, 0 is not, and an age that is NULL, at most 0
\* or above 100 has no group.
C6_AgeGroupBins ==
    SalesCleaned =>
        \A i \in 1..Len(dataframes.sales_fact) :
            LET row == dataframes.sales_fact[i]
                age == Val(row.age)
            IN IF IsNull(row.age) THEN IsNull(row.age_group)
               ELSE /\ (0 < age /\ age <= 25) => row.age_group = Some("18-25")
                    /\ (25 < age /\ age <= 35) => row.age_group = Some("26-35")
                    /\ (35 < age /\ age <= 45) => row.age_group = Some("36-45")
                    /\ (45 < age /\ age <= 60) => row.age_group = Some("46-60")
                    /\ (60 < age /\ age <= 100) => row.age_group = Some("60+")
                    /\ (age <= 0 \/ age > 100) => IsNull(row.age_group)

\* C6 witness: a cleaned table with a row of age 0 without a group and a
\* row of age 100 in the last group.
C6_Witness ==
    /\ SalesCleaned
    /\ \E i, j \in 1..Len(dataframes.sales_fact) :
          /\ dataframes.sales_fact[i].age = Some(0)
          /\ IsNull(dataframes.sales_fact[i].age_group)
          /\ dataframes.sales_fact[j].age = Some(100)
          /\ dataframes.sales_fact[j].age_group = Some("60+")

IsPrefix(s, t) == Len(s) <= Len(t) /\ s = SubSeq(t, 1, Len(s))

StageOf(call) ==
    IF call \in {"clean_sales_fact", "clean_customer_clv", "clean_rfm"} THEN "clean"
    ELSE call

\* C7: the stages run as one linear sequence connect, extract, close,
\* clean, export, summary: a stage starts only after the previous one has
\* completed, none runs twice, the connection is closed before cleaning
\* starts and carries no query afterwards, and after a failure no later
\* stage starts (no file after a cleaning failure, no summary after an
\* export failure).
C7_LinearPipeline ==
    /\ IsPrefix(started, StageOrder)
    /\ IsPrefix(completed, started)
    /\ Len(started) <= Len(completed) + 1
    /\ "clean" \in Range(started) => conn = "closed"
    /\ conn = "closed" => queriesRun = Len(QueryNames)
    /\ conn = "none" => queriesRun = 0
    /\ pc = "aborted" <=> failed # "none"
    /\ failed # "none" =>
          /\ Len(started) = Len(completed) + 1
          /\ started[Len(started)] = StageOf(failed)
    /\ files # <<>> => "clean" \in Range(completed)
    /\ printed => "export" \in Range(completed) /\ files = QueryNames
    /\ pc = "done" => completed = StageOrder

\* C7 witness: a run that went through all six stages.
C7_Witness ==
    /\ pc = "done"
    /\ completed = StageOrder
    /\ conn = "closed"
    /\ files = QueryNames
    /\ printed

C9_RecencyInverted ==
    RfmCleaned =>
        \A a, b \in 1..Len(dataframes.rfm_segmentation) :
            LET A == dataframes.rfm_segmentation[a]
                B == dataframes.rfm_segmentation[b]
            IN /\ Val(A.recency_days) < Val(B.recency_days) => A.R_score >= B.R_score
               /\ (\A c \in 1..Len(dataframes.rfm_segmentation) :
                      Val(A.recency_days) <= Val(dataframes.rfm_segmentation[c].recency_days))
                  => A.R_score = 4

\* C9 witness: a returned table where the more recent of two customers has
\* the strictly higher R_score.
C9_Witness ==
    /\ RfmCleaned
    /\ \E a, b \in 1..Len(dataframes.rfm_segmentation) :
          /\ Val(dataframes.rfm_segmentation[a].recency_days)
                 < Val(dataframes.rfm_segmentation[b].recency_days)
          /\ dataframes.rfm_segmentation[a].R_score = 4
          /\ dataframes.rfm_segmentation[b].R_score = 1

\* C10: in a table returned by clean_rfm, F_score is non-decreasing in
\* frequency, and of two customers with equal frequency the one in the
\* earlier row never has the higher F_score.
C10_FrequencyRankFirst ==
    RfmCleaned =>
        \A a, b \in 1..Len(dataframes.rfm_segmentation) :
            LET A == dataframes.rfm_segmentation[a]
                B == dataframes.rfm_segmentation[b]
            IN /\ Val(A.frequency) < Val(B.frequency) => A.F_score <= B.F_score
               /\ (A.frequency = B.frequency /\ a < b) => A.F_score <= B.F_score

\* C10 witness: two customers with the same frequency and different
\* F_scores, so that F_score is not a function of frequency alone.
C10_Witness ==
    /\ RfmCleaned
    /\ \E a, b \in 1..Len(dataframes.rfm_segmentation) :
          /\ a < b
          /\ dataframes.rfm_segmentation[a].frequency
                 = dataframes.rfm_segmentation[b].frequency
          /\ dataframes.rfm_segmentation[a].F_score
                 < dataframes.rfm_segmentation[b].F_score

====
